---- MODULE Spec2Model ----
(***************************************************************************)
(* Model of the HyperMemo retrieval-and-ranking engine                     *)
(* (supabase/functions/rag_query/index.ts) and of the match_bookmarks      *)
(* database function it calls.                                             *)
(*                                                                         *)
(* Numbers: JavaScript numbers are IEEE doubles.  Scores are modelled as   *)
(* exact rationals in lowest terms ([n |-> numerator, d |-> denominator]), *)
(* so rounding of the last binary digit is abstracted away.                *)
(***************************************************************************)
EXTENDS Integers, Sequences, FiniteSets, TLC

(***************************************************************************)
(* Bounds of the model                                                     *)
(***************************************************************************)
MaxCandidates == 3
MaxRequestTags == 2
MaxTopK == 3
MaxBookmarks == 8
MaxSparseRows == 4

TagNames == {"rust", "systems"}
SimValues == {70, 80}
Users == {"u1", "u2"}

(***************************************************************************)
(* Exact arithmetic                                                        *)
(***************************************************************************)
Abs(x) == IF x < 0 THEN -x ELSE x

RECURSIVE GCD(_, _)
GCD(a, b) == IF b = 0 THEN a ELSE GCD(b, a % b)

Rat(num, den) ==
    LET g == GCD(Abs(num), den)
    IN  [n |-> num \div g, d |-> den \div g]

RatAdd(x, y) == Rat(x.n * y.d + y.n * x.d, x.d * y.d)
RatSub(x, y) == Rat(x.n * y.d - y.n * x.d, x.d * y.d)
RatMul(x, y) == Rat(x.n * y.n, x.d * y.d)
RatLess(x, y) == x.n * y.d < y.n * x.d
RatLeq(x, y) == x.n * y.d <= y.n * x.d
Zero == Rat(0, 1)
Sim(hundredths) == Rat(hundredths, 100)

(***************************************************************************)
(* Sequences                                                               *)
(***************************************************************************)
Includes(s, x) == \E i \in DOMAIN s : s[i] = x
Min(a, b) == IF a < b THEN a ELSE b
SeqsUpTo(S, n) == UNION {[1..k -> S] : k \in 0..n}

SliceInclusive(s, end) == SubSeq(s, 1, Min(Len(s), end + 1))

\* Array.prototype.slice(0, end) for end >= 0
Slice(s, end) == SubSeq(s, 1, Min(Len(s), end))

(***************************************************************************)
(* Hybrid Ranker                                                           *)
(***************************************************************************)
BOOST_WEIGHT == Rat(1, 5)
DefaultTopK == 5

\* match.tags.filter(t => requestTags.includes(t)).length
TagMatchCount(match, requestTags) ==
    Cardinality({i \in DOMAIN match.tags : Includes(requestTags, match.tags[i])})

TagBoost(match, requestTags) ==
    IF Len(requestTags) > 0
    THEN RatMul(Rat(TagMatchCount(match, requestTags), Len(requestTags)), BOOST_WEIGHT)
    ELSE Zero

ToRagMatchRawSummary(match, requestTags) ==
    [bookmark |-> [id |-> match.id,
                   title |-> match.title,
                   url |-> match.url,
                   summary |-> match.raw_content,
                   tags |-> match.tags],
     score |-> RatAdd(match.similarity, TagBoost(match, requestTags))]

\* the callback of .map(): RpcMatch -> RagMatch
ToRagMatch(match, requestTags) ==
    [bookmark |-> [id |-> match.id,
                   title |-> match.title,
                   url |-> match.url,
                   summary |-> match.summary,
                   tags |-> match.tags],
     score |-> RatAdd(match.similarity, TagBoost(match, requestTags))]

CompareAscending(a, b) == RatSub(a.score, b.score)

\* the comparator (a, b) => b.score - a.score
Compare(a, b) == RatSub(b.score, a.score)

RECURSIVE InsertSortedUnstable(_, _)
InsertSortedUnstable(sorted, x) ==
    IF sorted = <<>>
    THEN <<x>>
    ELSE LET last == sorted[Len(sorted)]
         IN  IF Compare(last, x).n < 0
             THEN Append(sorted, x)
             ELSE Append(InsertSortedUnstable(SubSeq(sorted, 1, Len(sorted) - 1), x), last)

\* Array.prototype.sort is a stable sort (ECMAScript 2019, V8): an element is
\* placed after every element the comparator does not order behind it.
RECURSIVE InsertSorted(_, _)
InsertSorted(sorted, x) ==
    IF sorted = <<>>
    THEN <<x>>
    ELSE LET last == sorted[Len(sorted)]
         IN  IF Compare(last, x).n <= 0
             THEN Append(sorted, x)
             ELSE Append(InsertSorted(SubSeq(sorted, 1, Len(sorted) - 1), x), last)

RECURSIVE SortFrom(_, _, _)
SortFrom(s, i, acc) ==
    IF i > Len(s) THEN acc ELSE SortFrom(s, i + 1, InsertSorted(acc, s[i]))

Sort(s) == SortFrom(s, 1, <<>>)

MapRagMatch(matches, requestTags) ==
    [i \in DOMAIN matches |-> ToRagMatch(matches[i], requestTags)]

rankBookmarksSliceFirst(matches, requestTags, topK) ==
    Sort(MapRagMatch(Slice(matches, topK), requestTags))

\* matches.map(...).sort(...).slice(0, topK)
rankBookmarks(matches, requestTags, topK) ==
    Slice(Sort(MapRagMatch(matches, requestTags)), topK)

ArgumentSortedInPlace(matches, requestTags) ==
    LET ranked == Sort(MapRagMatch(matches, requestTags))
    IN  [i \in DOMAIN ranked |->
            matches[CHOOSE k \in DOMAIN matches : matches[k].id = ranked[i].bookmark.id]]

\* The array passed in as seen by the caller after the call: .map() builds a
\* new array and .sort() sorts that new array in place, so the argument keeps
\* its elements and their order.
ArgumentAfterRank(matches, requestTags) == matches

(***************************************************************************)
(* Source Formatter: a text is the sequence of its tokens, a citation       *)
(* marker such as "[S1]" being one token                                   *)
(***************************************************************************)
Marker(n) == "[S" \o ToString(n) \o "]"

SourceLineZeroBased(match, index) ==
    <<Marker(index), " ">> \o match.bookmark.title \o <<" - ">> \o match.bookmark.summary

\* `[S${index + 1}] ${match.bookmark.title} - ${match.bookmark.summary}`
SourceLine(match, index) ==
    <<Marker(index + 1), " ">> \o match.bookmark.title \o <<" - ">> \o match.bookmark.summary

RECURSIVE JoinLines(_, _)
JoinLines(matches, i) ==
    IF i > Len(matches) THEN <<>>
    ELSE (IF i > 1 THEN <<"\n">> ELSE <<>>)
         \o SourceLine(matches[i], i - 1) \o JoinLines(matches, i + 1)

buildSourcesText(matches) == JoinLines(matches, 1)

\* ragPrompt(question, sources): a fixed template around its two arguments
ragPrompt(question, sources) == [question |-> question, sources |-> sources]

(***************************************************************************)
(* The store: tables bookmarks, tags and bookmark_tags                     *)
(***************************************************************************)
TagUniverse ==
    { [id |-> 1, user_id |-> "u1", name |-> "rust"],
      [id |-> 2, user_id |-> "u1", name |-> "systems"],
      [id |-> 3, user_id |-> "u2", name |-> "rust"] }

OwnerOf(i) == IF i = 3 THEN "u2" ELSE "u1"

\* cosine similarity, in hundredths, of row i's embedding to the query vector
SimilarityOf(i) == IF i = 7 THEN 5 ELSE 95 - 5 * i

LinkedTagIds(i) ==
    IF OwnerOf(i) = "u2" THEN {3}
    ELSE CASE i % 4 = 1 -> {1}
           [] i % 4 = 2 -> {}
           [] i % 4 = 3 -> {2}
           [] OTHER -> {1, 2}

BookmarkRow(i) ==
    [id |-> i,
     user_id |-> OwnerOf(i),
     title |-> <<"title", ToString(i)>>,
     url |-> <<"url", ToString(i)>>,
     summary |-> <<"summary", ToString(i)>>,
     raw_content |-> <<"raw", ToString(i)>>,
     embedding |-> SimilarityOf(i)]

BookmarkUniverse == {BookmarkRow(i) : i \in 1..MaxBookmarks}

\* rows of bookmark_tags reference existing bookmarks and tags
LinksOf(bs, ts) ==
    UNION {{<<b.id, t.id>> : t \in {x \in ts : x.id \in LinkedTagIds(b.id)}} : b \in bs}

\* rows 1..MaxSparseRows are each present or absent; of the rows above them
\* the table holds the first few
BookmarkSets ==
    {bs \in SUBSET BookmarkUniverse :
        \A b \in bs : b.id > MaxSparseRows + 1 => BookmarkRow(b.id - 1) \in bs}

Stores ==
    {[bookmarks |-> bs, tags |-> ts, bookmark_tags |-> LinksOf(bs, ts)] :
        bs \in BookmarkSets, ts \in SUBSET TagUniverse}

\* a finite set of numbers as a sequence in ascending order
RECURSIVE Ascending(_)
Ascending(S) ==
    IF S = {} THEN <<>>
    ELSE LET m == CHOOSE x \in S : \A y \in S : x <= y
         IN  <<m>> \o Ascending(S \ {m})

(***************************************************************************)
(* Collaborators                                                           *)
(***************************************************************************)
MATCH_THRESHOLD == Rat(1, 10)
MATCH_COUNT == 50

\* nullable uuid[] argument of match_bookmarks
NullFilter == [null |-> TRUE, ids |-> <<>>]
IdFilter(ids) == [null |-> FALSE, ids |-> ids]

SelectTagIdsAnyOwner(tagTable, userId, tagNames) ==
    Ascending({t.id : t \in {x \in tagTable : Includes(tagNames, x.name)}})

\* the tags table read of resolveTagIds: .eq('user_id', userId).in('name', tagNames)
SelectTagIds(tagTable, userId, tagNames) ==
    Ascending({t.id : t \in {x \in tagTable : x.user_id = userId /\ Includes(tagNames, x.name)}})

\* array_agg(t.name) over the bookmark's associations (in tag id order)
TagNamesOf(b, tagTable, links) ==
    LET ids == Ascending({l[2] : l \in {x \in links : x[1] = b.id}})
    IN  [i \in DOMAIN ids |-> (CHOOSE t \in tagTable : t.id = ids[i]).name]

RowMatchesAnyOwner(b, links, threshold, filter_user_id, filter_tag_ids) ==
    /\ RatLess(threshold, Sim(b.embedding))
    /\ \/ filter_tag_ids.null
       \/ \E l \in links : l[1] = b.id /\ Includes(filter_tag_ids.ids, l[2])

\* the WHERE clause of match_bookmarks
RowMatches(b, links, threshold, filter_user_id, filter_tag_ids) ==
    /\ RatLess(threshold, Sim(b.embedding))
    /\ b.user_id = filter_user_id
    /\ \/ filter_tag_ids.null
       \/ \E l \in links : l[1] = b.id /\ Includes(filter_tag_ids.ids, l[2])

\* order by b.embedding <=> query_embedding: nearest (most similar) first
RECURSIVE OrderByDistance(_)
OrderByDistance(S) ==
    IF S = {} THEN <<>>
    ELSE LET m == CHOOSE x \in S : \A y \in S :
                    \/ x.embedding > y.embedding
                    \/ x.embedding = y.embedding /\ x.id <= y.id
         IN  <<m>> \o OrderByDistance(S \ {m})

RpcRow(b, tagTable, links) ==
    [id |-> b.id,
     user_id |-> b.user_id,
     title |-> b.title,
     url |-> b.url,
     summary |-> b.summary,
     raw_content |-> b.raw_content,
     tags |-> TagNamesOf(b, tagTable, links),
     similarity |-> Sim(b.embedding)]

match_bookmarks(bookmarkTable, tagTable, links, threshold, count, filter_user_id, filter_tag_ids) ==
    LET rows == {b \in bookmarkTable :
                    RowMatches(b, links, threshold, filter_user_id, filter_tag_ids)}
        ordered == OrderByDistance(rows)
    IN  [i \in 1..Min(Len(ordered), count) |-> RpcRow(ordered[i], tagTable, links)]

\* the arguments searchBookmarks passes to the RPC
searchBookmarks(bookmarkTable, tagTable, links, userId, tagIds) ==
    match_bookmarks(bookmarkTable, tagTable, links, MATCH_THRESHOLD, MATCH_COUNT, userId,
                    IF Len(tagIds) > 0 THEN IdFilter(tagIds) ELSE NullFilter)

(***************************************************************************)
(* Requests                                                                *)
(***************************************************************************)
Methods == {"POST", "GET", "OPTIONS"}
NoUser == "none"
Credentials == Users \cup {NoUser}

Whitespace == {" "}

RECURSIVE TrimStart(_)
TrimStart(s) ==
    IF s # <<>> /\ s[1] \in Whitespace THEN TrimStart(Tail(s)) ELSE s

RECURSIVE TrimEnd(_)
TrimEnd(s) ==
    IF s # <<>> /\ s[Len(s)] \in Whitespace THEN TrimEnd(SubSeq(s, 1, Len(s) - 1)) ELSE s

TrimNothing(s) == s

\* String.prototype.trim on a string given as its sequence of characters
Trim(s) == TrimEnd(TrimStart(s))

Questions ==
    { <<" ", " ", " ">>,
      <<" ", "a", "b", " ">>,
      <<" ", "a", "b", "c", " ">> }

RequestTagLists == SeqsUpTo(TagNames, MaxRequestTags)

EmptyBody == [x \in {} |-> 0]
NoBody == [unread |-> TRUE]

\* JSON bodies: each of question and tags may be absent; readJson does not
\* drop the fields RagPayload leaves out
Bodies ==
    {EmptyBody}
    \cup {[question |-> <<" ", "a", "b", "c", " ">>, tags |-> <<"rust">>, user_id |-> u] : u \in Users}
    \cup {[question |-> q] : q \in Questions}
    \cup {[tags |-> t] : t \in RequestTagLists}
    \cup {[question |-> q, tags |-> t] : q \in Questions, t \in RequestTagLists}

\* body.question ?? '' and body.tags ?? []
QuestionOf(body) == IF "question" \in DOMAIN body THEN body.question ELSE <<>>
TagsOf(body) == IF "tags" \in DOMAIN body THEN body.tags ELSE <<>>

MIN_QUESTION_LENGTH == 3
QuestionTooShortOffByOne(question) == Len(question) < MIN_QUESTION_LENGTH - 1

QuestionTooShort(question) == Len(question) < MIN_QUESTION_LENGTH

TagsUnsatisfiableNever(tagList, tagIds) == FALSE

AuthenticationFailsNever(cred) == FALSE

\* requireUserId throws
AuthenticationFails(cred) == cred = NoUser

EmbeddingMissingNever(embedding) == FALSE

\* !queryEmbedding.length
EmbeddingMissing(embedding) == Len(embedding) = 0

\* tags were requested but none exists for the owner
TagsUnsatisfiable(tagList, tagIds) == Len(tagList) > 0 /\ Len(tagIds) = 0

GeneratedTexts == {"Generated answer [S1]", ""}

jsonResponse(status, body) == [status |-> status, body |-> body]
NoResponse == [status |-> 0]
TagsNotFoundBody == [answer |-> "No bookmarks found with the selected tags.", matches |-> <<>>]
NoMatchesBodyTagsText ==
    [answer |-> "No bookmarks found with the selected tags.", matches |-> <<>>]

NoMatchesBody == [answer |-> "No matching bookmarks yet.", matches |-> <<>>]

(***************************************************************************)
(* State                                                                   *)
(***************************************************************************)
VARIABLES
    bookmarksTable,     \* table public.bookmarks
    tagsTable,          \* table tags
    bookmarkTagsTable,  \* table bookmark_tags: <<bookmark_id, tag_id>>
    pc,                 \* position of the request in Deno.serve / handleRagQuery
    method,             \* req.method
    credential,         \* whom the request's credentials authenticate
    userId,
    body,               \* the JSON body read from the request
    question,           \* the trimmed question
    tags,               \* body.tags ?? []
    queryEmbedding,
    tagIds,
    searchResults,
    matches,
    prompt,
    response,
    calls,              \* external calls made by the request
    failure,            \* message of the exception thrown in the request, if any
    rkPc,               \* rankBookmarks called directly
    rkInput,
    rkCandidates,
    rkRequestTags,
    rkTopK,
    rkResult,
    fmPc,               \* buildSourcesText called directly
    fmMatches,
    fmText,
    cq,                 \* concurrent invocations of handleRagQuery: locals of each
    gt,                 \* concurrent invocations of getOrCreateTag: locals of each
    tagsUnique,         \* whether table tags enforces unique (user_id, name)
    sv,                 \* bookmarkService: one call of listBookmarks or saveBookmark
    ui                  \* dashboard: chat state of the active session and streams in flight

storeVars == <<bookmarksTable, tagsTable, bookmarkTagsTable>>
requestVars == <<pc, method, credential, userId, body, question, tags, queryEmbedding, tagIds,
                 searchResults, matches, prompt, response, calls, failure>>
formatVars == <<fmPc, fmMatches, fmText>>
queryVars == <<cq>>
tagVars == <<gt, tagsUnique>>
serviceVars == <<sv>>
chatVars == <<ui>>
harnessVars == <<queryVars, tagVars, serviceVars, chatVars>>
rankVars == <<rkPc, rkInput, rkCandidates, rkRequestTags, rkTopK, rkResult, formatVars,
              harnessVars>>
vars == <<storeVars, requestVars, rankVars>>

\* everything of the query function outside the store
pipelineVars == <<requestVars, rkPc, rkInput, rkCandidates, rkRequestTags, rkTopK, rkResult,
                  formatVars>>
notQueryVars == <<tagVars, serviceVars, chatVars>>
notTagVars == <<queryVars, serviceVars, chatVars>>
notServiceVars == <<queryVars, tagVars, chatVars>>
notChatVars == <<queryVars, tagVars, serviceVars>>

NoPrompt == [question |-> <<>>, sources |-> <<>>]
NoFailure == "none"
NoCalls == [embedText |-> 0, tagsRead |-> 0, match_bookmarks |-> 0, generateContent |-> 0]

RequestAt(position) ==
    /\ pc = position
    /\ method = "POST"
    /\ credential = NoUser
    /\ userId = NoUser
    /\ body = NoBody
    /\ question = <<>>
    /\ tags = <<>>
    /\ queryEmbedding = <<>>
    /\ tagIds = <<>>
    /\ searchResults = <<>>
    /\ matches = <<>>
    /\ prompt = NoPrompt
    /\ response = NoResponse
    /\ calls = NoCalls
    /\ failure = NoFailure

QueryIds == {"q1", "q2"}

\* an invocation that is not running
OffQuery == [pc |-> "off"]

InvocationIds == {1, 2}

QueryIdle == cq = [i \in QueryIds |-> OffQuery]

TagIdle ==
    /\ gt = [i \in InvocationIds |-> OffQuery]
    /\ tagsUnique = FALSE

ServiceIdle == sv = OffQuery

ChatIdle == ui = OffQuery

HarnessIdle ==
    /\ QueryIdle
    /\ TagIdle
    /\ ServiceIdle
    /\ ChatIdle

FormatIdle ==
    /\ fmPc = "off"
    /\ fmMatches = <<>>
    /\ fmText = <<>>

RankIdle ==
    /\ FormatIdle
    /\ HarnessIdle
    /\ rkPc = "off"
    /\ rkInput = <<>>
    /\ rkCandidates = <<>>
    /\ rkRequestTags = <<>>
    /\ rkTopK = DefaultTopK
    /\ rkResult = <<>>

Init ==
    /\ \E st \in Stores :
          /\ bookmarksTable = st.bookmarks
          /\ tagsTable = st.tags
          /\ bookmarkTagsTable = st.bookmark_tags
    /\ RequestAt("idle")
    /\ RankIdle

(***************************************************************************)
(* Deno.serve and handleRagQuery, one action per run of code between awaits *)
(***************************************************************************)
Respond(status, payload) ==
    /\ response' = jsonResponse(status, payload)
    /\ pc' = "done"
    /\ UNCHANGED failure

\* the counter of the call an exception message comes from
CallOf(message) ==
    CASE message = "embedding failed" -> "embedText"
      [] message = "tags read failed" -> "tagsRead"
      [] message = "match_bookmarks failed" -> "match_bookmarks"
      [] OTHER -> "generateContent"

FailAnswersEmpty(message) ==
    /\ response' = jsonResponse(200, NoMatchesBody)
    /\ pc' = "done"
    /\ failure' = message
    /\ UNCHANGED calls

FailRetries(message) ==
    /\ failure' = message
    /\ IF message = "Invalid JSON"
       THEN /\ response' = jsonResponse(500, [error |-> message])
            /\ pc' = "done"
            /\ UNCHANGED calls
       ELSE /\ calls' = [calls EXCEPT ![CallOf(message)] = @ + 1]
            /\ UNCHANGED <<pc, response>>

\* an await throws: the catch block of Deno.serve
Fail(message) ==
    /\ response' = jsonResponse(500, [error |-> message])
    /\ pc' = "done"
    /\ failure' = message
    /\ UNCHANGED calls

\* request arrives: CORS preflight, method check, then await requireUserId
Serve ==
    /\ pc = "idle"
    /\ \E m \in Methods, c \in Credentials :
          /\ method' = m
          /\ credential' = c
          /\ IF m = "OPTIONS" THEN Respond(204, EmptyBody)
             ELSE IF m # "POST" THEN Respond(405, [error |-> "Method not allowed"])
             ELSE pc' = "authenticating" /\ UNCHANGED <<response, failure>>
    /\ UNCHANGED <<userId, body, question, tags, queryEmbedding, tagIds, searchResults, matches,
                   prompt, calls>>
    /\ UNCHANGED <<storeVars, rankVars>>

\* requireUserId returns or throws; then await readJson
Authenticated ==
    /\ pc = "authenticating"
    /\ IF AuthenticationFails(credential)
       THEN Respond(401, [error |-> "Unauthorized"]) /\ UNCHANGED userId
       ELSE userId' = credential /\ pc' = "readingBody" /\ UNCHANGED <<response, failure>>
    /\ UNCHANGED <<method, credential, body, question, tags, queryEmbedding, tagIds, searchResults,
                   matches, prompt, calls>>
    /\ UNCHANGED <<storeVars, rankVars>>

HandlerOwnerFromBody(authenticated, payload) ==
    IF "user_id" \in DOMAIN payload THEN payload.user_id ELSE authenticated

\* the owner handed to handleRagQuery: the id requireUserId returned
HandlerOwner(authenticated, payload) == authenticated

\* readJson returns the body: validation, then handleRagQuery up to await embedText
BodyRead ==
    /\ pc = "readingBody"
    /\ \/ Fail("Invalid JSON") /\ UNCHANGED <<userId, body, question, tags>>
       \/ \E b \in Bodies :
             /\ body' = b
             /\ userId' = HandlerOwner(userId, b)
             /\ question' = Trim(QuestionOf(b))
             /\ tags' = TagsOf(b)
             /\ IF QuestionTooShort(question')
                THEN Respond(400, [error |-> "Question is too short"]) /\ UNCHANGED calls
                ELSE /\ calls' = [calls EXCEPT !.embedText = @ + 1]
                     /\ pc' = "embedding"
                     /\ UNCHANGED <<response, failure>>
    /\ UNCHANGED <<method, credential, queryEmbedding, tagIds, searchResults, matches, prompt>>
    /\ UNCHANGED <<storeVars, rankVars>>

PromptNotYetBuilt(q, ranked) == NoPrompt

\* the prompt handed to generateContent: sources formatted from the ranked
\* matches, then ragPrompt
PromptOf(q, ranked) == ragPrompt(q, buildSourcesText(ranked))

\* handleRagQuery once resolveTagIds has returned ids
AfterResolve(ids) ==
    /\ tagIds' = ids
    /\ IF TagsUnsatisfiable(tags, ids)
       THEN Respond(200, TagsNotFoundBody) /\ UNCHANGED calls
       ELSE /\ calls' = [calls EXCEPT !.match_bookmarks = @ + 1]
            /\ pc' = "retrieving"
            /\ UNCHANGED <<response, failure>>

\* embedText returns or throws; then resolveTagIds up to its read of the tags table
Embedded ==
    /\ pc = "embedding"
    /\ \/ Fail("embedding failed") /\ UNCHANGED <<queryEmbedding, tagIds>>
       \/ \E v \in {<<>>, <<1>>} :
             /\ queryEmbedding' = v
             /\ IF EmbeddingMissing(v)
                THEN /\ Respond(400, [error |-> "Unable to embed the question"])
                     /\ UNCHANGED <<calls, tagIds>>
                ELSE IF Len(tags) = 0
                THEN AfterResolve(<<>>)
                ELSE /\ calls' = [calls EXCEPT !.tagsRead = @ + 1]
                     /\ pc' = "tag-resolving"
                     /\ UNCHANGED <<response, failure, tagIds>>
    /\ UNCHANGED <<method, credential, userId, body, question, tags, searchResults, matches, prompt>>
    /\ UNCHANGED <<storeVars, rankVars>>

TagsAfterReadCreating(tagTable, owner, names) ==
    IF \E t \in tagTable : t.user_id = owner /\ t.name = names[1] THEN tagTable
    ELSE tagTable \cup {[id |-> 9, user_id |-> owner, name |-> names[1]]}

\* the tags table once .from('tags').select('id') has run: a select writes nothing
TagsAfterRead(tagTable, owner, names) == tagTable

\* the tags table read returns data or an error
TagsResolved ==
    /\ pc = "tag-resolving"
    /\ \/ Fail("tags read failed") /\ UNCHANGED tagIds
       \/ AfterResolve(SelectTagIds(tagsTable, userId, tags))
    /\ UNCHANGED <<method, credential, userId, body, question, tags, queryEmbedding, searchResults,
                   matches, prompt>>
    /\ tagsTable' = TagsAfterRead(tagsTable, userId, tags)
    /\ UNCHANGED <<bookmarksTable, bookmarkTagsTable, rankVars>>

\* the match_bookmarks RPC returns data or an error; ranking, formatting and
\* the call of generateContent
Retrieved ==
    /\ pc = "retrieving"
    /\ \/ Fail("match_bookmarks failed") /\ UNCHANGED <<searchResults, matches, prompt>>
       \/ LET data == searchBookmarks(bookmarksTable, tagsTable, bookmarkTagsTable,
                                      userId, tagIds)
              ranked == rankBookmarks(data, tags, DefaultTopK)
          IN  IF Len(data) = 0
              THEN /\ searchResults' = data
                   /\ Respond(200, NoMatchesBody)
                   /\ UNCHANGED <<matches, prompt, calls>>
              ELSE /\ searchResults' = ArgumentAfterRank(data, tags)
                   /\ matches' = ranked
                   /\ prompt' = PromptOf(question, ranked)
                   /\ IF Len(ranked) > 0
                      THEN /\ calls' = [calls EXCEPT !.generateContent = @ + 1]
                           /\ pc' = "generating"
                           /\ UNCHANGED <<response, failure>>
                      ELSE /\ Respond(200, [answer |-> NoMatchesBody.answer, matches |-> ranked])
                           /\ UNCHANGED calls
    /\ UNCHANGED <<method, credential, userId, body, question, tags, queryEmbedding, tagIds>>
    /\ UNCHANGED <<storeVars, rankVars>>

\* generateContent returns text or throws
Generated ==
    /\ pc = "generating"
    /\ \/ Fail("generation failed")
       \/ \E text \in GeneratedTexts :
             /\ Respond(200, [answer |-> text, matches |-> matches])
             /\ UNCHANGED calls
    /\ UNCHANGED <<method, credential, userId, body, question, tags, queryEmbedding, tagIds,
                   searchResults, matches, prompt>>
    /\ UNCHANGED <<storeVars, rankVars>>

Next ==
    \/ Serve
    \/ Authenticated
    \/ BodyRead
    \/ Embedded
    \/ TagsResolved
    \/ Retrieved
    \/ Generated

Spec == Init /\ [][Next]_vars

(***************************************************************************)
(* rankBookmarks called directly on arbitrary arguments                    *)
(***************************************************************************)
\* tag lists of candidates: none, one, two, and a name held twice
CandTagLists == {<<>>, <<"rust">>, <<"rust", "systems">>, <<"rust", "rust">>}

CandidateRow(i, sim, tagList) ==
    [id |-> i,
     user_id |-> "u1",
     title |-> <<"title", ToString(i)>>,
     url |-> <<"url", ToString(i)>>,
     summary |-> <<"summary", ToString(i)>>,
     raw_content |-> <<"raw", ToString(i)>>,
     tags |-> tagList,
     similarity |-> Sim(sim)]

CandidateLists ==
    {[i \in DOMAIN shape |-> CandidateRow(i, shape[i][1], shape[i][2])] :
        shape \in SeqsUpTo(SimValues \X CandTagLists, MaxCandidates)}

RankInit ==
    /\ bookmarksTable = {}
    /\ tagsTable = {}
    /\ bookmarkTagsTable = {}
    /\ RequestAt("off")
    /\ rkPc = "ready"
    /\ rkInput \in CandidateLists
    /\ rkCandidates = rkInput
    /\ rkRequestTags \in RequestTagLists
    /\ rkTopK \in 0..MaxTopK
    /\ rkResult = <<>>
    /\ FormatIdle
    /\ HarnessIdle

RankCall ==
    /\ rkPc = "ready"
    /\ rkResult' = rankBookmarks(rkCandidates, rkRequestTags, rkTopK)
    /\ rkCandidates' = ArgumentAfterRank(rkCandidates, rkRequestTags)
    /\ rkPc' = "ranked"
    /\ UNCHANGED <<rkInput, rkRequestTags, rkTopK, formatVars, harnessVars>>
    /\ UNCHANGED <<storeVars, requestVars>>

RankNext == RankCall

RankSpec == RankInit /\ [][RankNext]_vars

\* the request handler and the direct calls of rankBookmarks together
FullSpec == (Init \/ RankInit) /\ [][Next \/ RankNext]_vars

(***************************************************************************)
(* buildSourcesText called directly on arbitrary match lists               *)
(***************************************************************************)
\* titles and summaries: plain text, text that is itself a marker, text with
\* a line break and a marker
Texts == { <<"a">>, <<"[S1]">>, <<"b", "\n", "[S2]", " ">> }

MatchOf(i, titleText, summaryText) ==
    [bookmark |-> [id |-> i,
                   title |-> titleText,
                   url |-> <<"url", ToString(i)>>,
                   summary |-> summaryText,
                   tags |-> <<>>],
     score |-> Sim(90 - i)]

MatchLists ==
    {[i \in DOMAIN shape |-> MatchOf(i, shape[i][1], shape[i][2])] :
        shape \in SeqsUpTo(Texts \X Texts, MaxCandidates)}

FormatInit ==
    /\ bookmarksTable = {}
    /\ tagsTable = {}
    /\ bookmarkTagsTable = {}
    /\ RequestAt("off")
    /\ rkPc = "off"
    /\ rkInput = <<>>
    /\ rkCandidates = <<>>
    /\ rkRequestTags = <<>>
    /\ rkTopK = DefaultTopK
    /\ rkResult = <<>>
    /\ fmPc = "ready"
    /\ fmMatches \in MatchLists
    /\ fmText = <<>>
    /\ HarnessIdle

FormatCall ==
    /\ fmPc = "ready"
    /\ fmText' = buildSourcesText(fmMatches)
    /\ fmPc' = "formatted"
    /\ UNCHANGED <<fmMatches, rkPc, rkInput, rkCandidates, rkRequestTags, rkTopK, rkResult,
                   harnessVars>>
    /\ UNCHANGED <<storeVars, requestVars>>

FormatNext == FormatCall

FormatSpec == FormatInit /\ [][FormatNext]_vars

(***************************************************************************)
(* Concurrent invocations of handleRagQuery on one store                   *)
(***************************************************************************)
\* the request handler, rankBookmarks and buildSourcesText harnesses at rest
PipelineOff ==
    /\ RequestAt("off")
    /\ rkPc = "off"
    /\ rkInput = <<>>
    /\ rkCandidates = <<>>
    /\ rkRequestTags = <<>>
    /\ rkTopK = DefaultTopK
    /\ rkResult = <<>>
    /\ FormatIdle

ValidQuestion == <<"a", "b", "c">>
QueryTagLists == {<<>>, <<"rust">>}

\* stores over two rows of one owner and one row of the other
QueryStores ==
    {[bookmarks |-> bs, tags |-> ts, bookmark_tags |-> LinksOf(bs, ts)] :
        bs \in SUBSET {BookmarkRow(1), BookmarkRow(3), BookmarkRow(4)},
        ts \in SUBSET TagUniverse}

NoResults == [embedText |-> "pending", tagsRead |-> "pending", match_bookmarks |-> "pending",
              generateContent |-> "pending"]

\* handleRagQuery(userId, question, tags) entered, embedText awaited
QueryStart(owner, tagList) ==
    [pc |-> "embedding",
     userId |-> owner,
     question |-> ValidQuestion,
     tags |-> tagList,
     queryEmbedding |-> <<>>,
     tagIds |-> <<>>,
     searchResults |-> <<>>,
     matches |-> <<>>,
     prompt |-> NoPrompt,
     response |-> NoResponse,
     results |-> NoResults]

QueryInit ==
    /\ \E st \in QueryStores :
          /\ bookmarksTable = st.bookmarks
          /\ tagsTable = st.tags
          /\ bookmarkTagsTable = st.bookmark_tags
    /\ PipelineOff
    /\ TagIdle
    /\ ServiceIdle
    /\ ChatIdle
    /\ cq \in [QueryIds -> {QueryStart(u, t) : u \in Users, t \in QueryTagLists}]

ScopeShared(i) == "q1"

\* the invocation whose parameters and consts a step of invocation i reads:
\* they are locals of the call of handleRagQuery
Scope(i) == i

Local(i) == cq[Scope(i)]

QRespond(q, status, payload) ==
    [q EXCEPT !.pc = "done", !.response = jsonResponse(status, payload)]

\* the catch block of Deno.serve
QFail(q, call, message) ==
    [q EXCEPT !.pc = "done",
              !.response = jsonResponse(500, [error |-> message]),
              !.results[call] = "threw"]

QAfterResolve(q, tagList, ids) ==
    IF TagsUnsatisfiable(tagList, ids)
    THEN QRespond([q EXCEPT !.tagIds = ids], 200, TagsNotFoundBody)
    ELSE [q EXCEPT !.tagIds = ids, !.pc = "retrieving"]

QEmbedded(i) ==
    /\ cq[i].pc = "embedding"
    /\ \/ cq' = [cq EXCEPT ![i] = QFail(@, "embedText", "embedding failed")]
       \/ \E v \in {<<>>, <<1>>} :
             LET q == [cq[i] EXCEPT !.queryEmbedding = v,
                                    !.results.embedText = IF v = <<>> THEN "empty" ELSE "vector"]
             IN  cq' = [cq EXCEPT ![i] =
                    IF EmbeddingMissing(v)
                    THEN QRespond(q, 400, [error |-> "Unable to embed the question"])
                    ELSE IF Len(Local(i).tags) = 0
                    THEN QAfterResolve(q, Local(i).tags, <<>>)
                    ELSE [q EXCEPT !.pc = "tag-resolving"]]
    /\ UNCHANGED <<storeVars, pipelineVars, notQueryVars>>

QTagsResolved(i) ==
    /\ cq[i].pc = "tag-resolving"
    /\ \/ cq' = [cq EXCEPT ![i] = QFail(@, "tagsRead", "tags read failed")]
       \/ cq' = [cq EXCEPT ![i] =
                    QAfterResolve([@ EXCEPT !.results.tagsRead = "returned"], Local(i).tags,
                                  SelectTagIds(tagsTable, Local(i).userId, Local(i).tags))]
    /\ UNCHANGED <<storeVars, pipelineVars, notQueryVars>>

QRetrieved(i) ==
    /\ cq[i].pc = "retrieving"
    /\ \/ cq' = [cq EXCEPT ![i] = QFail(@, "match_bookmarks", "match_bookmarks failed")]
       \/ LET data == searchBookmarks(bookmarksTable, tagsTable, bookmarkTagsTable,
                                      Local(i).userId, Local(i).tagIds)
              ranked == rankBookmarks(data, Local(i).tags, DefaultTopK)
              q == [cq[i] EXCEPT !.results.match_bookmarks = "returned",
                                 !.searchResults = data]
          IN  cq' = [cq EXCEPT ![i] =
                 IF Len(data) = 0 THEN QRespond(q, 200, NoMatchesBody)
                 ELSE LET r == [q EXCEPT !.matches = ranked,
                                         !.prompt = PromptOf(Local(i).question, ranked)]
                      IN  IF Len(ranked) > 0 THEN [r EXCEPT !.pc = "generating"]
                          ELSE QRespond(r, 200, [answer |-> NoMatchesBody.answer,
                                                 matches |-> ranked])]
    /\ UNCHANGED <<storeVars, pipelineVars, notQueryVars>>

QGenerated(i) ==
    /\ cq[i].pc = "generating"
    /\ \/ cq' = [cq EXCEPT ![i] = QFail(@, "generateContent", "generation failed")]
       \/ \E text \in GeneratedTexts :
             cq' = [cq EXCEPT ![i] =
                      QRespond([@ EXCEPT !.results.generateContent = text], 200,
                               [answer |-> text, matches |-> Local(i).matches])]
    /\ UNCHANGED <<storeVars, pipelineVars, notQueryVars>>

QueryNext ==
    \E i \in QueryIds :
        \/ QEmbedded(i)
        \/ QTagsResolved(i)
        \/ QRetrieved(i)
        \/ QGenerated(i)

QuerySpec == QueryInit /\ [][QueryNext]_vars

(***************************************************************************)
(* process-bookmark: concurrent invocations of getOrCreateTag               *)
(***************************************************************************)
TagOwner == "u1"

\* getOrCreateTag(userId, tagName) entered, the select awaited
TagCallStart(name) ==
    [pc |-> "selecting", userId |-> TagOwner, tagName |-> name, result |-> 0,
     error |-> "none", readFailed |-> FALSE]

TagInit ==
    /\ bookmarksTable = {}
    /\ bookmarkTagsTable = {}
    /\ tagsTable \in SUBSET TagUniverse
    /\ tagsUnique \in BOOLEAN
    /\ PipelineOff
    /\ QueryIdle
    /\ ServiceIdle
    /\ ChatIdle
    /\ gt \in [InvocationIds -> {TagCallStart(n) : n \in TagNames}]

\* rows of .eq('user_id', userId).eq('name', tagName)
TagRows(tagTable, owner, name) == {t \in tagTable : t.user_id = owner /\ t.name = name}

\* the id the database gives the row invocation i inserts
NewTagId(i) == 10 + i

\* .single(): the row when exactly one row matches, else null; the error of
\* the read is dropped by the destructuring
GtSelected(i) ==
    /\ gt[i].pc = "selecting"
    /\ LET rows == TagRows(tagsTable, gt[i].userId, gt[i].tagName)
       IN  \/ /\ Cardinality(rows) = 1
              /\ gt' = [gt EXCEPT ![i].pc = "done",
                                  ![i].result = (CHOOSE t \in rows : TRUE).id]
           \/ /\ Cardinality(rows) # 1
              /\ gt' = [gt EXCEPT ![i].pc = "inserting"]
    /\ UNCHANGED <<storeVars, tagsUnique, pipelineVars, notTagVars>>

\* the read fails: existingTag is null and the function goes on to insert
GtSelectFailed(i) ==
    /\ gt[i].pc = "selecting"
    /\ gt' = [gt EXCEPT ![i].pc = "inserting", ![i].readFailed = TRUE]
    /\ UNCHANGED <<storeVars, tagsUnique, pipelineVars, notTagVars>>

\* .insert({ user_id, name }).select('id').single(), then the throw on error
GtInserted(i) ==
    /\ gt[i].pc = "inserting"
    /\ IF tagsUnique /\ TagRows(tagsTable, gt[i].userId, gt[i].tagName) # {}
       THEN /\ gt' = [gt EXCEPT ![i].pc = "done", ![i].error = "conflict"]
            /\ UNCHANGED tagsTable
       ELSE /\ tagsTable' = tagsTable \cup {[id |-> NewTagId(i),
                                               user_id |-> gt[i].userId,
                                               name |-> gt[i].tagName]}
            /\ gt' = [gt EXCEPT ![i].pc = "done", ![i].result = NewTagId(i)]
    /\ UNCHANGED <<bookmarksTable, bookmarkTagsTable, tagsUnique, pipelineVars, notTagVars>>

\* the insert fails for another reason
GtInsertFailed(i) ==
    /\ gt[i].pc = "inserting"
    /\ gt' = [gt EXCEPT ![i].pc = "done", ![i].error = "failed"]
    /\ UNCHANGED <<storeVars, tagsUnique, pipelineVars, notTagVars>>

TagNext ==
    \E i \in InvocationIds :
        \/ GtSelected(i)
        \/ GtSelectFailed(i)
        \/ GtInserted(i)
        \/ GtInsertFailed(i)

TagSpec == TagInit /\ [][TagNext]_vars

(***************************************************************************)
(* bookmarkService: listBookmarks and saveBookmark over apiClient and       *)
(* chromeStorage                                                           *)
(***************************************************************************)
BOOKMARK_CACHE_KEY == "bookmarks"

Bookmark(id, title) == [id |-> id, title |-> title]

\* what GET /bookmarks can return
ServerLists ==
    { <<>>, <<Bookmark(1, "one")>>, <<Bookmark(1, "one"), Bookmark(2, "two")>> }

\* chromeStorage: nothing stored under the key, or a list
NoCache == [present |-> FALSE, list |-> <<>>]
Cached(list) == [present |-> TRUE, list |-> list]
CacheValues == {NoCache, Cached(<<>>), Cached(<<Bookmark(1, "old")>>)}

\* payloads of saveBookmark: without id, and with the id of a bookmark
NoPayload == [none |-> TRUE]
SavePayloads ==
    {[title |-> "new"]} \cup {[id |-> i, title |-> "new"] : i \in {1, 2}}

ServiceStart(operation, payload, server, cache) ==
    [pc |-> IF operation = "saveBookmark" THEN "writing" ELSE "getting",
     op |-> operation,
     payload |-> payload,
     server |-> server,
     cache |-> cache,
     cache0 |-> cache,
     log |-> <<>>,
     data |-> <<>>,
     getOk |-> FALSE,
     saved |-> NoPayload,
     result |-> NoPayload,
     threw |-> FALSE]

ServiceInit ==
    /\ bookmarksTable = {}
    /\ tagsTable = {}
    /\ bookmarkTagsTable = {}
    /\ PipelineOff
    /\ QueryIdle
    /\ TagIdle
    /\ ChatIdle
    /\ \E server \in ServerLists, cache \in CacheValues :
          \/ sv = ServiceStart("listBookmarks", NoPayload, server, cache)
          \/ \E payload \in SavePayloads :
                sv = ServiceStart("saveBookmark", payload, server, cache)

HasId(payload) == "id" \in DOMAIN payload

WriteCallAlwaysPost(payload) == "POST /bookmarks"

\* the request saveBookmark sends: PUT /bookmarks/{id} with an id, else POST /bookmarks
WriteCall(payload) ==
    IF HasId(payload) THEN "PUT /bookmarks/" \o ToString(payload.id) ELSE "POST /bookmarks"

\* the bookmark the API answers a write with, and the list it then holds
WriteResponse(server, payload) ==
    IF HasId(payload) THEN Bookmark(payload.id, payload.title)
    ELSE Bookmark(Len(server) + 1, payload.title)

ServerAfterWrite(server, payload) ==
    IF HasId(payload)
    THEN [i \in DOMAIN server |->
            IF server[i].id = payload.id THEN WriteResponse(server, payload) ELSE server[i]]
    ELSE Append(server, WriteResponse(server, payload))

CachedOrDefaultEmpty(cache) == <<>>

\* chromeStorage.get(BOOKMARK_CACHE_KEY, [])
CachedOrDefault(cache) == IF cache.present THEN cache.list ELSE <<>>

\* what the running operation returns once the list step is over
ServiceReturn(state, list) ==
    IF state.op = "saveBookmark" THEN state.saved ELSE list

\* saveBookmark: the write call returns or throws
SvWritten ==
    /\ sv.pc = "writing"
    /\ \/ /\ HasId(sv.payload) => \E i \in DOMAIN sv.server : sv.server[i].id = sv.payload.id
          /\ sv' = [sv EXCEPT !.log = Append(@, WriteCall(sv.payload)),
                               !.saved = WriteResponse(sv.server, sv.payload),
                               !.server = ServerAfterWrite(sv.server, sv.payload),
                               !.pc = "getting"]
       \/ sv' = [sv EXCEPT !.log = Append(@, WriteCall(sv.payload)),
                            !.threw = TRUE,
                            !.pc = "done"]
    /\ UNCHANGED <<storeVars, pipelineVars, notServiceVars>>

\* listBookmarks: GET /bookmarks returns or throws
SvGot ==
    /\ sv.pc = "getting"
    /\ \/ sv' = [sv EXCEPT !.log = @ \o <<"GET /bookmarks", "set " \o BOOKMARK_CACHE_KEY>>,
                            !.data = sv.server,
                            !.getOk = TRUE,
                            !.cache = Cached(sv.server),
                            !.pc = "storing"]
       \/ sv' = [sv EXCEPT !.log = @ \o <<"GET /bookmarks", "get " \o BOOKMARK_CACHE_KEY>>,
                            !.pc = "falling-back"]
    /\ UNCHANGED <<storeVars, pipelineVars, notServiceVars>>

\* chromeStorage.set has resolved: the list is returned
SvStored ==
    /\ sv.pc = "storing"
    /\ sv' = [sv EXCEPT !.result = ServiceReturn(sv, sv.data), !.pc = "done"]
    /\ UNCHANGED <<storeVars, pipelineVars, notServiceVars>>

\* chromeStorage.get has resolved: the cached list is returned
SvFellBack ==
    /\ sv.pc = "falling-back"
    /\ sv' = [sv EXCEPT !.result = ServiceReturn(sv, CachedOrDefault(sv.cache)), !.pc = "done"]
    /\ UNCHANGED <<storeVars, pipelineVars, notServiceVars>>

ServiceNext ==
    \/ SvWritten
    \/ SvGot
    \/ SvStored
    \/ SvFellBack

ServiceSpec == ServiceInit /\ [][ServiceNext]_vars

(***************************************************************************)
(* Dashboard chat: askAssistant, handleRegenerateResponse, handleKeyDown,   *)
(* handleResetSession on the active session. Handlers see the state of the *)
(* last render; every event is followed by a render.                       *)
(***************************************************************************)
\* askAssistant and handleRegenerateResponse calls started in one run
MaxOperations == 3

NoMessageId == 0

ChatMessage(id, role) == [id |-> id, role |-> role, content |-> ""]

ChatInit ==
    /\ bookmarksTable = {}
    /\ tagsTable = {}
    /\ bookmarkTagsTable = {}
    /\ PipelineOff
    /\ QueryIdle
    /\ TagIdle
    /\ ServiceIdle
    /\ ui = [pc |-> "rendered",
             messages |-> <<>>,
             question |-> "",
             chatLoading |-> FALSE,
             chatError |-> FALSE,
             regeneratingMessageId |-> NoMessageId,
             streams |-> {},
             started |-> 0,
             sent |-> {},
             wasReset |-> FALSE]

\* crypto.randomUUID() for the two messages of the k-th operation
UserMessageId(k) == 2 * k - 1
AssistantMessageId(k) == 2 * k

\* s.messages.map(m => m.id === id ? { ...m, content } : m)
WithContent(messages, id, content) ==
    [i \in DOMAIN messages |->
        IF messages[i].id = id THEN [messages[i] EXCEPT !.content = content] ELSE messages[i]]

\* s.messages.filter(m => m.id !== id)
RECURSIVE Without(_, _)
Without(messages, id) ==
    IF messages = <<>> THEN <<>>
    ELSE IF Head(messages).id = id THEN Without(Tail(messages), id)
    ELSE <<Head(messages)>> \o Without(Tail(messages), id)

\* handleChatInputChange: the textarea is never disabled
TypeQuestion ==
    /\ ui.pc = "rendered"
    /\ ui.question = ""
    /\ ui' = [ui EXCEPT !.question = "text"]
    /\ UNCHANGED <<storeVars, pipelineVars, notChatVars>>

\* askAssistant() up to its first await
AskBegin ==
    /\ ui.question # ""
    /\ ui.started < MaxOperations
    /\ LET k == ui.started + 1
       IN  ui' = [ui EXCEPT !.question = "",
                            !.chatLoading = TRUE,
                            !.chatError = FALSE,
                            !.messages = @ \o <<ChatMessage(UserMessageId(k), "user"),
                                                ChatMessage(AssistantMessageId(k), "assistant")>>,
                            !.streams = @ \cup {[kind |-> "ask",
                                                 assistantMessageId |-> AssistantMessageId(k),
                                                 snapshot |-> <<>>]},
                            !.started = k,
                            !.sent = @ \cup {UserMessageId(k)}]

\* the send button of ChatInput: disabled={loading || !value.trim() || disabled}
SendClicked ==
    /\ ui.pc = "rendered"
    /\ ~ui.chatLoading
    /\ AskBegin
    /\ UNCHANGED <<storeVars, pipelineVars, notChatVars>>

\* handleKeyDown: Enter with metaKey or ctrlKey calls onSubmit
SubmitKeyPressed ==
    /\ ui.pc = "rendered"
    /\ AskBegin
    /\ UNCHANGED <<storeVars, pipelineVars, notChatVars>>

\* handleRegenerateResponse(messageIndex) up to its first await; index is the
\* position of the assistant message counted from 1
RegenerateClicked ==
    /\ ui.pc = "rendered"
    /\ ui.regeneratingMessageId = NoMessageId
    /\ ~ui.chatLoading
    /\ ui.started < MaxOperations
    /\ \E index \in DOMAIN ui.messages :
          /\ index >= 2
          /\ ui.messages[index].role = "assistant"
          /\ ui.messages[index - 1].role = "user"
          /\ LET k == ui.started + 1
             IN  ui' = [ui EXCEPT
                    !.regeneratingMessageId = ui.messages[index].id,
                    !.chatLoading = TRUE,
                    !.chatError = FALSE,
                    !.messages = SubSeq(ui.messages, 1, index - 1)
                                    \o <<ChatMessage(AssistantMessageId(k), "assistant")>>,
                    !.streams = @ \cup {[kind |-> "regenerate",
                                         assistantMessageId |-> AssistantMessageId(k),
                                         snapshot |-> ui.messages]},
                    !.started = k]
    /\ UNCHANGED <<storeVars, pipelineVars, notChatVars>>

\* a content event of a stream: the placeholder's content is replaced
StreamContent ==
    /\ \E st \in ui.streams :
          /\ \E i \in DOMAIN ui.messages :
                ui.messages[i].id = st.assistantMessageId /\ ui.messages[i].content = ""
          /\ ui' = [ui EXCEPT !.messages = WithContent(@, st.assistantMessageId, "streamed")]
    /\ UNCHANGED <<storeVars, pipelineVars, notChatVars>>

\* the finally block of either function
Finally(state, st) ==
    [state EXCEPT !.chatLoading = FALSE,
                  !.regeneratingMessageId =
                      IF st.kind = "regenerate" THEN NoMessageId ELSE @,
                  !.streams = @ \ {st}]

\* the stream ends
StreamEnded ==
    /\ \E st \in ui.streams : ui' = Finally(ui, st)
    /\ UNCHANGED <<storeVars, pipelineVars, notChatVars>>

\* the stream throws or yields an error event: the catch block, then finally
StreamFailed ==
    /\ \E st \in ui.streams :
          ui' = Finally([ui EXCEPT !.chatError = TRUE,
                                   !.messages = IF st.kind = "ask"
                                                THEN Without(@, st.assistantMessageId)
                                                ELSE st.snapshot],
                        st)
    /\ UNCHANGED <<storeVars, pipelineVars, notChatVars>>

\* handleResetSession, confirmed
ResetConfirmed ==
    /\ ui.pc = "rendered"
    /\ ui.messages # <<>>
    /\ ~ui.wasReset
    /\ ui' = [ui EXCEPT !.messages = <<>>, !.wasReset = TRUE]
    /\ UNCHANGED <<storeVars, pipelineVars, notChatVars>>

ChatNext ==
    \/ TypeQuestion
    \/ SendClicked
    \/ SubmitKeyPressed
    \/ RegenerateClicked
    \/ StreamContent
    \/ StreamEnded
    \/ StreamFailed
    \/ ResetConfirmed

ChatSpec == ChatInit /\ [][ChatNext]_vars

(***************************************************************************)
(* Properties                                                              *)
(***************************************************************************)
HasMatches(r) == "body" \in DOMAIN r /\ "matches" \in DOMAIN r.body
OwnerOfBookmark(id) == (CHOOSE b \in bookmarksTable : b.id = id).user_id

\* C1: when the request's tag list is non-empty and the tags read returns no
\* id for the owner, that very step ends the query with status 200, the answer
\* "No bookmarks found with the selected tags." and no matches, and neither
\* match_bookmarks nor generateContent is called in the query.
C1_TagShortCircuit ==
    [][ (/\ pc = "tag-resolving"
         /\ Len(tags) > 0
         /\ tagIds' = <<>>
         /\ response'.status # 500)
        => (/\ pc' = "done"
            /\ response' = [status |-> 200,
                            body |-> [answer |-> "No bookmarks found with the selected tags.",
                                      matches |-> <<>>]]
            /\ calls'.match_bookmarks = 0
            /\ calls'.generateContent = 0) ]_vars

C1_Witness ==
    /\ pc = "done"
    /\ Len(tags) > 0
    /\ calls.tagsRead = 1
    /\ response.status = 200
    /\ response.body.answer = "No bookmarks found with the selected tags."
    /\ \E b \in bookmarksTable : b.user_id = userId /\ b.embedding > 10

\* C2: every match held by the query or carried by its response is a bookmark
\* of the authenticated owner, whatever the store holds for other owners.
C2_NoCrossTenant ==
    /\ \A i \in DOMAIN searchResults : searchResults[i].user_id = userId
    /\ \A i \in DOMAIN matches : OwnerOfBookmark(matches[i].bookmark.id) = userId
    /\ HasMatches(response) =>
          \A i \in DOMAIN response.body.matches :
              OwnerOfBookmark(response.body.matches[i].bookmark.id) = userId

C2_Witness ==
    /\ pc = "done"
    /\ HasMatches(response)
    /\ Len(response.body.matches) > 0
    /\ \E b \in bookmarksTable : b.user_id # userId /\ b.embedding > 10
    /\ \E t \in tagsTable : t.user_id # userId /\ Includes(tags, t.name)

\* C3: rankBookmarks returns exactly min(len(candidates), topK) matches, and
\* no response of the handler carries more than 5 matches.
C3_MatchCount ==
    /\ rkPc = "ranked" => Len(rkResult) = Min(Len(rkInput), rkTopK)
    /\ pc = "generating" => Len(matches) = Min(Len(searchResults), 5)
    /\ HasMatches(response) =>
          /\ Len(response.body.matches) <= 5
          /\ Len(response.body.matches) = Min(Len(searchResults), 5)

C3_Witness ==
    /\ pc = "done"
    /\ Len(searchResults) > 5
    /\ HasMatches(response)
    /\ Len(response.body.matches) = 5

\* C4: a request whose question is, after trimming, shorter than 3 characters
\* (missing and whitespace-only included) is answered 400 and has called no
\* external collaborator.
C4_ShortQuestionRejected ==
    (body # NoBody /\ Len(Trim(QuestionOf(body))) < 3)
        => /\ pc = "done"
           /\ response = [status |-> 400, body |-> [error |-> "Question is too short"]]
           /\ calls = NoCalls
           /\ queryEmbedding = <<>> /\ tagIds = <<>> /\ searchResults = <<>>

C4_Witness ==
    /\ pc = "done"
    /\ response.status = 400
    /\ "question" \in DOMAIN body
    /\ Len(body.question) >= 3
    /\ Len(Trim(body.question)) = 2

\* C5: when match_bookmarks returns no row the query ends with status 200,
\* the answer "No matching bookmarks yet." and no matches; generateContent is
\* never called while the match list is empty.
C5_NoCandidates ==
    /\ (pc = "done" /\ calls.match_bookmarks = 1 /\ searchResults = <<>>
            /\ response.status # 500)
          => /\ response = [status |-> 200,
                            body |-> [answer |-> "No matching bookmarks yet.",
                                      matches |-> <<>>]]
             /\ calls.generateContent = 0
    /\ calls.generateContent > 0 => Len(matches) > 0
    /\ pc = "generating" => searchResults # <<>>

C5_Witness ==
    /\ pc = "done"
    /\ calls.match_bookmarks = 1
    /\ response.status = 200
    /\ searchResults = <<>>
    /\ tagIds # <<>>
    /\ \E b \in bookmarksTable : b.user_id = userId /\ b.embedding > 10

(***************************************************************************)
(* Properties of rankBookmarks (candidate ids are the input positions)     *)
(***************************************************************************)
InputOf(m) == rkInput[m.bookmark.id]
ResultIds == {rkResult[i].bookmark.id : i \in DOMAIN rkResult}
CarriesAll(row, requestTags) == \A k \in DOMAIN requestTags : Includes(row.tags, requestTags[k])
CarriesNone(row, requestTags) == \A k \in DOMAIN requestTags : ~Includes(row.tags, requestTags[k])
NoDuplicates(s) == \A i, j \in DOMAIN s : s[i] = s[j] => i = j

\* C6: for a non-empty requested tag list, of two candidates with the same
\* similarity, one carrying every requested tag name and one carrying none,
\* the first scores higher than the second by exactly 0.2.
C6_FullOverlapBoost ==
    (rkPc = "ranked" /\ rkRequestTags # <<>>) =>
        \A i, j \in DOMAIN rkResult :
            (/\ InputOf(rkResult[i]).similarity = InputOf(rkResult[j]).similarity
             /\ CarriesAll(InputOf(rkResult[i]), rkRequestTags)
             /\ CarriesNone(InputOf(rkResult[j]), rkRequestTags))
            => RatSub(rkResult[i].score, rkResult[j].score) = Rat(1, 5)

\* the same statement for tag lists free of duplicates
C6_FullOverlapBoostDistinct ==
    (/\ rkPc = "ranked"
     /\ rkRequestTags # <<>>
     /\ NoDuplicates(rkRequestTags)
     /\ \A c \in DOMAIN rkInput : NoDuplicates(rkInput[c].tags))
    => \A i, j \in DOMAIN rkResult :
            (/\ InputOf(rkResult[i]).similarity = InputOf(rkResult[j]).similarity
             /\ CarriesAll(InputOf(rkResult[i]), rkRequestTags)
             /\ CarriesNone(InputOf(rkResult[j]), rkRequestTags))
            => RatSub(rkResult[i].score, rkResult[j].score) = Rat(1, 5)

\* number of requested tags present on the candidate
RequestedPresent(row, requestTags) ==
    Cardinality({k \in DOMAIN requestTags : Includes(row.tags, requestTags[k])})

ClaimedBoost(row, requestTags) ==
    IF Len(requestTags) > 0
    THEN RatMul(Rat(RequestedPresent(row, requestTags), Len(requestTags)), Rat(1, 5))
    ELSE Zero

\* C7: every returned score equals similarity + tagBoost, tagBoost being
\* (requested tags present on the candidate / requested tags) * 0.2, and 0
\* for an empty requested tag list.
C7_ScoreFormula ==
    rkPc = "ranked" =>
        \A i \in DOMAIN rkResult :
            rkResult[i].score =
                RatAdd(InputOf(rkResult[i]).similarity,
                       ClaimedBoost(InputOf(rkResult[i]), rkRequestTags))

\* the same statement for tag lists free of duplicates
C7_ScoreFormulaDistinct ==
    (/\ rkPc = "ranked"
     /\ NoDuplicates(rkRequestTags)
     /\ \A c \in DOMAIN rkInput : NoDuplicates(rkInput[c].tags))
    => \A i \in DOMAIN rkResult :
            rkResult[i].score =
                RatAdd(InputOf(rkResult[i]).similarity,
                       ClaimedBoost(InputOf(rkResult[i]), rkRequestTags))

\* C8: the returned list is ordered by final score descending: a match with a
\* strictly higher score never comes after one with a lower score.
C8_SortedByScore ==
    rkPc = "ranked" =>
        \A i, j \in DOMAIN rkResult :
            i < j => RatLeq(rkResult[j].score, rkResult[i].score)

C8_Witness ==
    /\ rkPc = "ranked"
    /\ \E i, j \in DOMAIN rkResult :
          /\ i < j
          /\ RatLess(InputOf(rkResult[i]).similarity, InputOf(rkResult[j]).similarity)
          /\ RatLess(rkResult[j].score, rkResult[i].score)

FinalScore(row) == ToRagMatch(row, rkRequestTags).score

\* C9: matches of equal final score keep the relative order of the input, and
\* of two equal-scored candidates only the earlier one can be kept by top-K.
C9_StableTies ==
    rkPc = "ranked" =>
        /\ \A i, j \in DOMAIN rkResult :
              (i < j /\ rkResult[i].score = rkResult[j].score)
              => rkResult[i].bookmark.id < rkResult[j].bookmark.id
        /\ \A i \in DOMAIN rkResult : \A c \in DOMAIN rkInput :
              (c \notin ResultIds /\ FinalScore(rkInput[c]) = rkResult[i].score)
              => rkResult[i].bookmark.id < c

C9_Witness ==
    /\ rkPc = "ranked"
    /\ \E i \in DOMAIN rkResult : \E c \in DOMAIN rkInput :
          /\ c \notin ResultIds
          /\ FinalScore(rkInput[c]) = rkResult[i].score
          /\ InputOf(rkResult[i]).similarity # rkInput[c].similarity
    /\ \E i, j \in DOMAIN rkResult :
          i # j /\ rkResult[i].score = rkResult[j].score

ExternalFailures ==
    {"embedding failed", "tags read failed", "match_bookmarks failed", "generation failed"}

\* C13: when an external call of a query fails, the query ends with a 500
\* response carrying only an error (no answer, no matches), and no later
\* collaborator is called.
C13_FailurePropagates ==
    failure \in ExternalFailures =>
        /\ pc = "done"
        /\ response.status = 500
        /\ DOMAIN response.body = {"error"}
        /\ failure = "embedding failed" =>
              calls.tagsRead = 0 /\ calls.match_bookmarks = 0 /\ calls.generateContent = 0
        /\ failure = "tags read failed" =>
              calls.match_bookmarks = 0 /\ calls.generateContent = 0
        /\ failure = "match_bookmarks failed" => calls.generateContent = 0
        /\ calls[CallOf(failure)] = 1

C13_Witness ==
    /\ failure = "match_bookmarks failed"
    /\ pc = "done"
    /\ calls.tagsRead = 1
    /\ tagIds # <<>>

\* the embedder returned an empty vector
EmbeddedNothing ==
    /\ calls.embedText = 1
    /\ pc # "embedding"
    /\ failure = NoFailure
    /\ queryEmbedding = <<>>

\* C14 as stated: an empty vector from the embedder ends the query with a
\* successful response carrying a fixed answer and an empty match list, the
\* store search and the generator not being called.
C14_EmptyEmbeddingIsEmptyResult ==
    EmbeddedNothing =>
        /\ pc = "done"
        /\ response.status = 200
        /\ DOMAIN response.body = {"answer", "matches"}
        /\ response.body.matches = <<>>
        /\ calls.match_bookmarks = 0
        /\ calls.generateContent = 0

\* C14 amended: an empty vector from the embedder ends the query with the
\* 400 response "Unable to embed the question", carrying neither answer nor
\* matches; tags read, store search and generator are not called.
C14_EmptyEmbeddingRejected ==
    EmbeddedNothing =>
        /\ pc = "done"
        /\ response = [status |-> 400, body |-> [error |-> "Unable to embed the question"]]
        /\ calls.tagsRead = 0
        /\ calls.match_bookmarks = 0
        /\ calls.generateContent = 0

C14_Witness ==
    /\ EmbeddedNothing
    /\ pc = "done"
    /\ tags # <<>>
    /\ \E b \in bookmarksTable : b.user_id = userId

\* C15: a POST request whose authentication fails is answered 401 before
\* any processing: the body is never read or validated and none of
\* embedText, the tags read, match_bookmarks or generateContent is called.
C15_UnauthenticatedRejected ==
    (method = "POST" /\ credential = NoUser /\ pc \notin {"off", "idle", "authenticating"}) =>
        /\ pc = "done"
        /\ response = [status |-> 401, body |-> [error |-> "Unauthorized"]]
        /\ body = NoBody
        /\ calls = NoCalls
        /\ failure = NoFailure

C15_Witness ==
    /\ method = "POST"
    /\ credential = NoUser
    /\ pc = "done"
    /\ bookmarksTable # {}

\* position of a step in the order of one query
StepRank(position) ==
    CASE position = "off" -> 0
      [] position = "idle" -> 0
      [] position = "authenticating" -> 1
      [] position = "readingBody" -> 2
      [] position = "embedding" -> 3
      [] position = "tag-resolving" -> 4
      [] position = "retrieving" -> 5
      [] position = "generating" -> 6
      [] OTHER -> 7

\* the store is searched only with an embedding and with the tags resolved
SearchAfterEmbeddingAndTags ==
    (pc = "retrieving" \/ calls.match_bookmarks > 0) =>
        /\ calls.embedText = 1
        /\ calls.match_bookmarks = 1
        /\ queryEmbedding # <<>>
        /\ failure \notin {"embedding failed", "tags read failed"}
        /\ IF tags = <<>>
           THEN calls.tagsRead = 0 /\ tagIds = <<>>
           ELSE /\ calls.tagsRead = 1
                /\ tagIds = SelectTagIds(tagsTable, userId, tags)
                /\ tagIds # <<>>

\* the generator is called only with the search done, the results ranked and
\* the prompt built from the ranked matches
GenerateAfterRankAndFormat ==
    (pc = "generating" \/ calls.generateContent > 0) =>
        /\ calls.match_bookmarks = 1
        /\ failure # "match_bookmarks failed"
        /\ searchResults = searchBookmarks(bookmarksTable, tagsTable, bookmarkTagsTable,
                                           userId, tagIds)
        /\ matches = rankBookmarks(searchResults, tags, DefaultTopK)
        /\ matches # <<>>
        /\ prompt = ragPrompt(question, buildSourcesText(matches))

\* C17: the steps of one query occur only in the order embedding,
\* tag-resolving, retrieving, ranking, formatting, generating, done: the store
\* is searched only after embedding and tag resolution have succeeded, and
\* the generator is called only after ranking and formatting, with a prompt
\* built from the ranked matches.
C17_StepOrder ==
    /\ [](SearchAfterEmbeddingAndTags /\ GenerateAfterRankAndFormat)
    /\ [][StepRank(pc') > StepRank(pc)]_vars

C17_Witness ==
    /\ pc = "done"
    /\ response.status = 200
    /\ calls = [embedText |-> 1, tagsRead |-> 1, match_bookmarks |-> 1, generateContent |-> 1]
    /\ Len(matches) >= 2
    /\ Len(tagIds) = 2

\* resolveTagIds has returned for the query
TagsWereResolved ==
    /\ pc \in {"retrieving", "generating", "done"}
    /\ queryEmbedding # <<>>
    /\ failure \notin {"embedding failed", "tags read failed"}

\* ids of the owner's tags with one of the names
OwnTagIds(owner, names) ==
    {t.id : t \in {x \in tagsTable : x.user_id = owner /\ \E i \in DOMAIN names : names[i] = x.name}}

\* C18: resolveTagIds(owner, tagNames) returns exactly the ids of the
\* owner's tags with a name in tagNames: for no names an empty list without
\* reading the tag store, for names unknown to the owner an empty list and no
\* error, never the id of another user's tag; it writes nothing.
C18_ResolveTagIds ==
    /\ [](TagsWereResolved =>
            /\ {tagIds[i] : i \in DOMAIN tagIds} = OwnTagIds(userId, tags)
            /\ Len(tagIds) = Cardinality(OwnTagIds(userId, tags))
            /\ calls.tagsRead = (IF tags = <<>> THEN 0 ELSE 1)
            /\ (tags # <<>> /\ OwnTagIds(userId, tags) = {}) =>
                  failure = NoFailure /\ response = jsonResponse(200, TagsNotFoundBody))
    /\ [][UNCHANGED storeVars]_vars

C18_Witness ==
    /\ TagsWereResolved
    /\ tags = <<"rust", "systems">>
    /\ Len(tagIds) = 1
    /\ \E t \in tagsTable : t.user_id # userId /\ t.name = "rust"

C18_UnknownNamesWitness ==
    /\ TagsWereResolved
    /\ tags # <<>>
    /\ tagIds = <<>>
    /\ tagsTable # {}

\* number of characters from the first to the last non-whitespace character
TrimmedLength(s) ==
    LET solid == {i \in DOMAIN s : s[i] \notin Whitespace}
    IN  IF solid = {} THEN 0
        ELSE (CHOOSE i \in solid : \A j \in solid : j <= i)
             - (CHOOSE i \in solid : \A j \in solid : i <= j) + 1

\* the request passed validation and reached the embedding step
ReachedEmbedding == calls.embedText >= 1

\* C19 as stated: every query that reaches the embedding step has a trimmed
\* question longer than 3 characters.
C19_LongerThanThree ==
    ReachedEmbedding => TrimmedLength(QuestionOf(body)) > 3

\* C19 amended: every query that reaches the embedding step has a trimmed
\* question of at least 3 characters, and that trimmed question is the one
\* the query works with; a shorter one is rejected.
C19_AtLeastThree ==
    /\ ReachedEmbedding =>
          /\ TrimmedLength(QuestionOf(body)) >= 3
          /\ Len(question) = TrimmedLength(QuestionOf(body))
    /\ (body # NoBody /\ TrimmedLength(QuestionOf(body)) < 3) =>
          response = [status |-> 400, body |-> [error |-> "Question is too short"]]

C19_Witness ==
    /\ ReachedEmbedding
    /\ TrimmedLength(QuestionOf(body)) = 3
    /\ Len(QuestionOf(body)) > 3
    /\ pc = "done"
    /\ response.status = 200

\* a body reduced to the fields of RagPayload
Bare(payload) == [f \in (DOMAIN payload \cap {"question", "tags"}) |-> payload[f]]

\* what the query of the authenticated caller computes from the bare body
OwnerTagIds == SelectTagIds(tagsTable, credential, TagsOf(Bare(body)))
OwnerSearch ==
    searchBookmarks(bookmarksTable, tagsTable, bookmarkTagsTable, credential, OwnerTagIds)
OwnerMatches == rankBookmarks(OwnerSearch, TagsOf(Bare(body)), DefaultTopK)

\* C20: the owner used for tag resolution and for the store search is the
\* authenticated caller, never a field of the body: whatever else the body
\* carries, the collaborator calls and the response are the ones the
\* authenticated caller gets for the body's question and tags alone.
C20_OwnerFromAuthentication ==
    body # NoBody =>
        /\ userId = credential
        /\ question = Trim(QuestionOf(Bare(body)))
        /\ tags = TagsOf(Bare(body))
        /\ calls.tagsRead = (IF TagsWereResolved /\ TagsOf(Bare(body)) # <<>> THEN 1
                             ELSE IF pc = "tag-resolving" \/ failure = "tags read failed" THEN 1
                             ELSE 0)
        /\ TagsWereResolved => tagIds = OwnerTagIds
        /\ (calls.match_bookmarks = 1 /\ pc # "retrieving" /\ failure # "match_bookmarks failed")
              => searchResults = OwnerSearch
        /\ (pc = "generating" \/ calls.generateContent = 1) =>
              /\ matches = OwnerMatches
              /\ prompt = ragPrompt(Trim(QuestionOf(Bare(body))), buildSourcesText(OwnerMatches))
        /\ HasMatches(response) =>
              response.body.matches \in {<<>>, OwnerMatches}

C20_Witness ==
    /\ pc = "done"
    /\ "user_id" \in DOMAIN body
    /\ body.user_id # credential
    /\ HasMatches(response)
    /\ response.body.matches # <<>>
    /\ \E b \in bookmarksTable : b.user_id = body.user_id
    /\ SelectTagIds(tagsTable, body.user_id, tags) # <<>>

\* C16: no collaborator is called more than once in a query, failed calls
\* included.
C16_NoRetry ==
    /\ calls.embedText <= 1
    /\ calls.tagsRead <= 1
    /\ calls.match_bookmarks <= 1
    /\ calls.generateContent <= 1
    /\ failure # NoFailure => pc = "done"

C16_Witness ==
    /\ pc = "done"
    /\ failure = "generation failed"
    /\ calls = [embedText |-> 1, tagsRead |-> 1, match_bookmarks |-> 1, generateContent |-> 1]

\* the bookmarks table with every raw_content replaced
AlterRaw(bs, content) == {[b EXCEPT !.raw_content = content] : b \in bs}
RawVariants == {<<>>, <<"other", "[S1]">>}

\* C12: matches, sources text and generator prompt of a query are the ones
\* the same query produces against a store that differs only in the
\* raw_content of its bookmarks.
C12_RawContentIndependence ==
    (pc \in {"generating", "done"} /\ searchResults # <<>>) =>
        \A content \in RawVariants :
            LET data == searchBookmarks(AlterRaw(bookmarksTable, content), tagsTable,
                                        bookmarkTagsTable, userId, tagIds)
                ranked == rankBookmarks(data, tags, DefaultTopK)
            IN  /\ Len(data) = Len(searchResults)
                /\ matches = ranked
                /\ prompt.sources = buildSourcesText(ranked)
                /\ prompt = ragPrompt(question, buildSourcesText(ranked))
                /\ HasMatches(response) => response.body.matches = ranked

C12_Witness ==
    /\ pc = "done"
    /\ response.status = 200
    /\ Len(response.body.matches) > 1
    /\ prompt.sources # <<>>
    /\ \A i \in DOMAIN searchResults : searchResults[i].raw_content # <<>>

(***************************************************************************)
(* Properties of buildSourcesText                                          *)
(***************************************************************************)
MarkerTokens == {Marker(n) : n \in 0..9}
IsMarker(token) == token \in MarkerTokens
MarkersIn(text) == SelectSeq(text, IsMarker)
ExpectedMarkers(k) == [i \in 1..k |-> Marker(i)]

RECURSIVE MarkersCarried(_, _)
MarkersCarried(ms, i) ==
    IF i > Len(ms) THEN 0
    ELSE Len(MarkersIn(ms[i].bookmark.title)) + Len(MarkersIn(ms[i].bookmark.summary))
         + MarkersCarried(ms, i + 1)

\* position in the text where the line of match i starts
RECURSIVE LineStart(_, _)
LineStart(ms, i) ==
    IF i = 1 THEN 1
    ELSE LineStart(ms, i - 1)
         + 3 + Len(ms[i - 1].bookmark.title) + Len(ms[i - 1].bookmark.summary) + 1

\* C11 as stated: for every match list of length K the text holds exactly the
\* K markers [S1] .. [SK], in rank order, and is empty for K = 0.
C11_ExactlyKMarkers ==
    fmPc = "formatted" =>
        /\ MarkersIn(fmText) = ExpectedMarkers(Len(fmMatches))
        /\ Len(fmMatches) = 0 => fmText = <<>>

\* C11 amended: the formatter renders K lines, line i beginning with marker
\* [S i] followed by the title and summary copied as they are; the markers of
\* the text are those K plus the ones titles and summaries carry, hence
\* exactly [S1] .. [SK] when no title or summary carries one; K = 0 gives
\* the empty text.
C11_MarkersPerLine ==
    fmPc = "formatted" =>
        /\ Len(fmMatches) = 0 => fmText = <<>>
        /\ \A i \in DOMAIN fmMatches :
              /\ fmText[LineStart(fmMatches, i)] = Marker(i)
              /\ i > 1 => fmText[LineStart(fmMatches, i) - 1] = "\n"
        /\ Len(MarkersIn(fmText)) = Len(fmMatches) + MarkersCarried(fmMatches, 1)
        /\ MarkersCarried(fmMatches, 1) = 0
              => MarkersIn(fmText) = ExpectedMarkers(Len(fmMatches))

C11_Witness ==
    /\ fmPc = "formatted"
    /\ Len(fmMatches) >= 2
    /\ MarkersCarried(fmMatches, 1) > 0
    /\ Len(MarkersIn(fmText)) > Len(fmMatches)


\* the response of handleRagQuery(owner, question, tagList) run alone on the
\* store, its collaborators behaving as recorded in res
SoloResponse(owner, tagList, res) ==
    IF res.embedText = "threw" THEN jsonResponse(500, [error |-> "embedding failed"])
    ELSE IF res.embedText = "empty"
    THEN jsonResponse(400, [error |-> "Unable to embed the question"])
    ELSE IF res.tagsRead = "threw" THEN jsonResponse(500, [error |-> "tags read failed"])
    ELSE LET ids == IF tagList = <<>> THEN <<>> ELSE SelectTagIds(tagsTable, owner, tagList)
             data == searchBookmarks(bookmarksTable, tagsTable, bookmarkTagsTable, owner, ids)
             ranked == rankBookmarks(data, tagList, DefaultTopK)
         IN  IF tagList # <<>> /\ ids = <<>> THEN jsonResponse(200, TagsNotFoundBody)
             ELSE IF res.match_bookmarks = "threw"
             THEN jsonResponse(500, [error |-> "match_bookmarks failed"])
             ELSE IF data = <<>> THEN jsonResponse(200, NoMatchesBody)
             ELSE IF res.generateContent = "threw"
             THEN jsonResponse(500, [error |-> "generation failed"])
             ELSE jsonResponse(200, [answer |-> res.generateContent, matches |-> ranked])

\* a step changes the locals of one invocation only, and never the store
OneInvocationPerStep ==
    /\ \A i, j \in QueryIds : (i # j /\ cq[i]' # cq[i]) => cq[j]' = cq[j]
    /\ UNCHANGED storeVars

\* C21: concurrent queries share no mutable state: under every interleaving
\* of the steps of two queries, each query's response is the one it produces
\* alone for the same collaborator results, and a step of one query changes
\* nothing of the other.
C21_QueriesIsolated ==
    /\ [](\A i \in QueryIds :
            cq[i].pc = "done" =>
                cq[i].response = SoloResponse(cq[i].userId, cq[i].tags, cq[i].results))
    /\ [][OneInvocationPerStep]_vars

C21_Witness ==
    /\ \A i \in QueryIds : cq[i].pc = "done" /\ cq[i].response.status = 200
    /\ cq["q1"].userId # cq["q2"].userId
    /\ cq["q1"].tags # cq["q2"].tags
    /\ cq["q1"].response.body.matches # <<>>
    /\ cq["q2"].response.body.matches # <<>>
    /\ cq["q1"].response # cq["q2"].response

\* C22: the query pipeline is read-only: on every path of a query (success,
\* empty, rejected, failed) no step changes the bookmarks, the tags or the
\* bookmark-tag associations of the store.
C22_ReadOnly == [][UNCHANGED storeVars]_vars

C22_Witness ==
    /\ pc = "done"
    /\ response.status = 200
    /\ calls = [embedText |-> 1, tagsRead |-> 1, match_bookmarks |-> 1, generateContent |-> 1]
    /\ Cardinality(tagsTable) = 1
    /\ tags = <<"systems", "rust">>
    /\ bookmarkTagsTable # {}

\* the boost a returned match received: its score less its similarity
AppliedBoost(m) == RatSub(m.score, InputOf(m).similarity)

\* C25: for every candidate, whatever its tag-name list, and every requested
\* tag list, the boost applied by rankBookmarks lies between 0 and 0.2, so
\* every returned score lies between similarity and similarity + 0.2.
C25_BoostBounded ==
    rkPc = "ranked" =>
        \A i \in DOMAIN rkResult :
            /\ RatLeq(Zero, AppliedBoost(rkResult[i]))
            /\ RatLeq(AppliedBoost(rkResult[i]), Rat(1, 5))

\* the same statement for candidates whose tag-name list has no duplicate
C25_BoostBoundedDistinct ==
    (rkPc = "ranked" /\ \A c \in DOMAIN rkInput : NoDuplicates(rkInput[c].tags)) =>
        \A i \in DOMAIN rkResult :
            /\ RatLeq(Zero, AppliedBoost(rkResult[i]))
            /\ RatLeq(AppliedBoost(rkResult[i]), Rat(1, 5))

\* positions of the input that the result leaves out
LeftOut == {c \in DOMAIN rkInput : c \notin ResultIds}

\* C26: truncation to top-K comes after scoring the whole candidate set:
\* every candidate left out scores no more than every match returned, the
\* result holds min(K, candidates) distinct candidates, and so no candidate
\* is left out for having no tag overlap.
C26_TruncateAfterScoring ==
    rkPc = "ranked" =>
        /\ \A c \in LeftOut : \A i \in DOMAIN rkResult :
              RatLeq(FinalScore(rkInput[c]), rkResult[i].score)
        /\ ResultIds \subseteq DOMAIN rkInput
        /\ Cardinality(ResultIds) = Len(rkResult)
        /\ Len(rkResult) = Min(Len(rkInput), rkTopK)
        /\ \A i \in DOMAIN rkResult : rkResult[i].score = FinalScore(InputOf(rkResult[i]))

C26_Witness ==
    /\ rkPc = "ranked"
    /\ rkRequestTags # <<>>
    /\ LeftOut # {}
    /\ \E i \in DOMAIN rkResult :
          /\ CarriesNone(InputOf(rkResult[i]), rkRequestTags)
          /\ \E c \in LeftOut : ~CarriesNone(rkInput[c], rkRequestTags)
    /\ \E i \in DOMAIN rkResult : \E c \in LeftOut : c < rkResult[i].bookmark.id

\* a tag list as the spec wants it handed on; every name of TagNames is
\* lower-case and trimmed, so only a repeated name can break it here
Normalized(tagList) ==
    /\ NoDuplicates(tagList)
    /\ \A i \in DOMAIN tagList : tagList[i] \in TagNames

\* C27: the tag names of a request are normalized (lower-cased, trimmed,
\* deduplicated) before use: the list handed to resolveTagIds and to
\* rankBookmarks has no duplicate, for every request tag list.
C27_TagsNormalized ==
    (calls.tagsRead >= 1 \/ matches # <<>>) => Normalized(tags)

\* no read and no insert failed for a reason other than the uniqueness of names
NoOutage ==
    \A i \in InvocationIds : gt[i].pc # "off" /\ ~gt[i].readFailed /\ gt[i].error # "failed"

\* C28: after any interleaving of getOrCreateTag invocations for one owner
\* and tag name, the tag store holds at most one tag with that owner and
\* name, and every invocation has obtained that tag's id.
C28_TagNamesUnique ==
    NoOutage =>
        /\ \A a, b \in tagsTable : (a.user_id = b.user_id /\ a.name = b.name) => a = b
        /\ \A i \in InvocationIds :
              gt[i].pc = "done" =>
                  /\ gt[i].error = "none"
                  /\ \E t \in tagsTable :
                        /\ t.id = gt[i].result
                        /\ t.user_id = gt[i].userId
                        /\ t.name = gt[i].tagName

\* the same statement for invocations that run one after the other
C28_TagNamesUniqueSequential ==
    (NoOutage /\ \E i \in InvocationIds : gt[i].pc \in {"selecting", "done"}
              /\ \A j \in InvocationIds : j # i => gt[j].pc = "selecting")
        => /\ \A a, b \in tagsTable : (a.user_id = b.user_id /\ a.name = b.name) => a = b
           /\ \A i \in InvocationIds : gt[i].pc = "done" => gt[i].error = "none"

C23_FreshWitness ==
    /\ sv.pc = "done"
    /\ sv.op = "listBookmarks"
    /\ sv.getOk
    /\ sv.cache0 # sv.cache

\* the write calls in the log of the service call
WriteCalls ==
    {i \in DOMAIN sv.log : sv.log[i] \notin {"GET /bookmarks", "set " \o BOOKMARK_CACHE_KEY,
                                              "get " \o BOOKMARK_CACHE_KEY}}

C24_CreateWitness ==
    /\ sv.pc = "done"
    /\ sv.op = "saveBookmark"
    /\ "id" \notin DOMAIN sv.payload
    /\ sv.result = Bookmark(3, "new")

\* C29: chatLoading is true in every state in which an answer stream started
\* by askAssistant or handleRegenerateResponse is still in flight.
C29_LoadingWhileStreaming == ui.streams # {} => ui.chatLoading

MessageIds == {ui.messages[i].id : i \in DOMAIN ui.messages}

\* C30: every user message sent by askAssistant is still in its session
\* after any interleaving of askAssistant and handleRegenerateResponse,
\* succeeding or failing, unless the user reset the session.
C30_UserMessagesKept == ~ui.wasReset => ui.sent \subseteq MessageIds

\* a failed askAssistant removes its own placeholder and nothing else
C30_AskFailureRemovesOwnPlaceholder ==
    [][\A st \in ui.streams :
          (st.kind = "ask" /\ ui' = Finally([ui EXCEPT !.chatError = TRUE,
                                                       !.messages = Without(@, st.assistantMessageId)],
                                            st))
            => ui'.sent \cap MessageIds \subseteq {ui'.messages[i].id : i \in DOMAIN ui'.messages}]_vars
====
